---- MODULE Spec2Model ----
(***************************************************************************)
(* Voice-conversation chat widget: the App component (handlers, effects,   *)
(* UI gating) and the useSpeechRecognition hook (recognizer lifecycle,     *)
(* timers, latches), with the browser recognizer, the speech synthesizer   *)
(* and the chat endpoint as nondeterministic environments.                 *)
(*                                                                         *)
(* Texts are sequences of one-character strings so that trim() and length  *)
(* are computed as the code computes them.                                 *)
(***************************************************************************)
EXTENDS Integers, Sequences, FiniteSets, TLC

(* ------------------------------ bounds --------------------------------- *)
MaxUserMessages == 2      \* user messages the list may hold for a voice turn to start
MaxTextMessages == 1      \* user messages the list may hold for a text send to start
MaxTranscriptLen == 2     \* characters a listening session may accumulate
MaxSpeechLen == 11        \* the same where long utterances are told apart (SpecHearing)
MaxInputLen == 2          \* characters the text input may hold
MaxInstances == 2         \* recognizer objects alive at once (active + ending)
MaxPendingStarts == 1     \* startListening calls awaiting the permission check
MaxVoiceRequests == 2     \* outstanding chat requests of voice turns
MaxResetTimers == 1       \* pending "isProcessingRef = false" timers of onend/onerror
MaxAppTimers == 1         \* pending post-turn restart timers of handleVoiceConversation
MaxTextRequests == 1      \* outstanding chat requests of text sends
MaxResetRequests == 1     \* outstanding reset requests

(* ------------------------------- texts --------------------------------- *)
Empty == << >>
None == "none"
\* The value of a timer that is not pending: a sequence no text equals.
NoTimer == << "none" >>

\* What the recognizer may report as one result's transcript.
Segments == { <<" ", "a">>, <<" ">> }

\* Results of a longer utterance: a word ending a sentence, and a longer word.
SpeechSegments == { <<" ", "a", ".">>, <<"a", "a", "a", "a", "a">> }

\* Results of an utterance of short sentences.
SentenceSegments == { <<"a", ".">> }

\* What the user may type into the text input.
InputTexts == { Empty, <<" ">>, <<"h">> }

\* sendChatMessage's textResponse on success, and the fallback error text.
ResponseTexts == { Empty, <<"r">> }
\* The fallback error text of the catch blocks, and the message of a ChatApiError.
ErrorText == <<"E">>
ApiErrorText == <<"A">>
Failures == { "ChatApiError", "Error" }

\* The delays (ms) of handleVoiceConversation's restart timers: after playback,
\* after an empty response, after a failed call.
SpeakRestartDelay == 500
EmptyRestartDelay == 1000
FailureRestartDelay == 2000
Delays == { SpeakRestartDelay, EmptyRestartDelay, FailureRestartDelay }

RECURSIVE TrimLeft(_)
TrimLeft(t) == IF t # Empty /\ Head(t) = " " THEN TrimLeft(Tail(t)) ELSE t

RECURSIVE TrimRight(_)
TrimRight(t) ==
    IF t # Empty /\ t[Len(t)] = " " THEN TrimRight(SubSeq(t, 1, Len(t) - 1)) ELSE t

\* String.prototype.trim
Trim(t) == TrimRight(TrimLeft(t))

(* ------------------------------- state --------------------------------- *)
VARIABLES
    \* App component state
    messages,              \* ChatMessage list: records [type, message, attachment]
    input,                 \* text input field
    isLoading,
    attachment,            \* pending attachment present
    autoSpeak,
    autoSpeakTimer,        \* handleSendMessage's 500 ms speak timer pending
    isVoiceMode,
    currentUserSpeech,
    currentBotSpeech,
    voiceModeRef,
    isProcessingVoiceRef,  \* app-level latch
    \* useSpeechRecognition state
    isListening,
    transcript,
    recognitionRef,        \* Null, or the lifecycle status of the recognizer it refers to
    onSpeechEndRef,        \* None or "voice" (handleVoiceConversation)
    finalTranscriptRef,
    isVoiceModeRef,
    isProcessingRef,       \* hook-level latch
    lastProcessedTextRef,
    restartTimer,          \* timeoutRef: restartListening's 1500 ms timer pending
    silenceTimer,          \* silenceTimeoutRef: NoTimer or the fullText the timer captured
    dispatch,              \* processVoiceResult's 100 ms callback: NoTimer or its text
    resetTimers,           \* pending 1000 ms "isProcessingRef = false" timers
    noSpeechTimer,         \* pending 1000 ms restart timer of the no-speech branch
    pendingStarts,         \* startListening calls awaiting checkMicrophonePermission
    detached,              \* live recognizers recognitionRef no longer refers to: status -> count
    callbackCalls,         \* history: calls of the voice callback in this listening session (2 = more)
    stoppedSinceNoSpeech,  \* history: stopListening ran while the no-speech timer was pending
    \* useSpeechSynthesis state
    isSpeaking,
    speakCallback,         \* None or "voice": the onDone of the current utterance
    \* handleVoiceConversation's timers and requests
    appTimers,             \* pending restart timers of the turns: delay -> count
    requests,              \* outstanding sendChatMessage calls, by kind
    \* environment
    isMobile,
    micGranted

vars == << messages, input, isLoading, attachment, autoSpeak, autoSpeakTimer, isVoiceMode, currentUserSpeech,
           currentBotSpeech, voiceModeRef, isProcessingVoiceRef, isListening,
           transcript, recognitionRef, onSpeechEndRef, finalTranscriptRef,
           isVoiceModeRef, isProcessingRef, lastProcessedTextRef, restartTimer,
           silenceTimer, dispatch, resetTimers, noSpeechTimer, pendingStarts,
           detached, callbackCalls, stoppedSinceNoSpeech, isSpeaking, speakCallback,
           appTimers, requests, isMobile, micGranted >>

\* The current state as one record; the handlers below are functions on it.
State ==
    [ messages |-> messages, input |-> input, isLoading |-> isLoading,
      attachment |-> attachment, autoSpeak |-> autoSpeak,
      autoSpeakTimer |-> autoSpeakTimer, isVoiceMode |-> isVoiceMode,
      currentUserSpeech |-> currentUserSpeech, currentBotSpeech |-> currentBotSpeech,
      voiceModeRef |-> voiceModeRef, isProcessingVoiceRef |-> isProcessingVoiceRef,
      isListening |-> isListening, transcript |-> transcript,
      recognitionRef |-> recognitionRef, onSpeechEndRef |-> onSpeechEndRef,
      finalTranscriptRef |-> finalTranscriptRef, isVoiceModeRef |-> isVoiceModeRef,
      isProcessingRef |-> isProcessingRef, lastProcessedTextRef |-> lastProcessedTextRef,
      restartTimer |-> restartTimer, silenceTimer |-> silenceTimer,
      dispatch |-> dispatch, resetTimers |-> resetTimers,
      noSpeechTimer |-> noSpeechTimer, pendingStarts |-> pendingStarts,
      detached |-> detached, callbackCalls |-> callbackCalls,
      stoppedSinceNoSpeech |-> stoppedSinceNoSpeech, isSpeaking |-> isSpeaking,
      speakCallback |-> speakCallback, appTimers |-> appTimers,
      requests |-> requests, isMobile |-> isMobile, micGranted |-> micGranted ]

RequestKinds == { "voice", "voiceExited", "text", "reset" }
StartModes == { "voice", "manual" }

\* Lifecycle of a recognizer object (handlers of every object write the same refs,
\* so objects are told apart only by their status and by whether recognitionRef
\* refers to them):
\*   starting  start() called, start event not delivered
\*   waiting   started on mobile in voice mode and no event since: the auto-stop
\*             timer its onstart set is pending
\*   listening started, no auto-stop timer pending
\*   stopping  stop() called: may still deliver results, then ends
\*   aborting  abort() called: delivers error 'aborted', then ends
\*   errored   an error event was delivered: the end event follows
Status == { "starting", "waiting", "listening", "stopping", "aborting", "errored" }
Live == { "starting", "waiting", "listening", "stopping" }
Null == "null"

(* ------------------- browser recognizer object methods ----------------- *)
\* SpeechRecognition.abort(): no further results; error 'aborted' and end follow.
AbortInstance(status) == IF status \in Live THEN "aborting" ELSE status

\* SpeechRecognition.stop(): results of the audio captured so far may follow, then end.
StopInstance(status) ==
    IF status \in { "starting", "waiting", "listening" } THEN "stopping" ELSE status

\* An object is named by "ref" (the one recognitionRef refers to) or, when
\* detached, by its status.
Objects == { "ref" } \cup Status

Exists(o) == IF o = "ref" THEN recognitionRef # Null ELSE detached[o] > 0
StatusOf(o) == IF o = "ref" THEN recognitionRef ELSE o

RECURSIVE SumOver(_, _)
SumOver(f, S) ==
    IF S = {} THEN 0
    ELSE LET x == CHOOSE y \in S : TRUE IN f[x] + SumOver(f, S \ { x })

ObjectCount(s) == (IF s.recognitionRef # Null THEN 1 ELSE 0) + SumOver(s.detached, Status)

\* The object's status changes to st.
SetStatus(s, o, st) ==
    IF o = "ref" THEN [s EXCEPT !.recognitionRef = st]
    ELSE [s EXCEPT !.detached = [@ EXCEPT ![o] = @ - 1, ![st] = @ + 1]]

\* The object is gone (its end event was delivered).
Remove(s, o) ==
    IF o = "ref" THEN [s EXCEPT !.recognitionRef = Null]
    ELSE [s EXCEPT !.detached = [@ EXCEPT ![o] = @ - 1]]

\* recognitionRef.current = null: the object it referred to lives on, detached.
ClearRef(s) ==
    IF s.recognitionRef = Null THEN s
    ELSE [s EXCEPT !.detached = [@ EXCEPT ![s.recognitionRef] = @ + 1],
                   !.recognitionRef = Null]

PendingStartCount(s) == s.pendingStarts["voice"] + s.pendingStarts["manual"]

(* --------------------------- useSpeechSynthesis ------------------------ *)
\* speak(text, onDone?): starts an utterance, replacing the current one.
speak(s, onDone) == [s EXCEPT !.isSpeaking = TRUE, !.speakCallback = onDone]

\* stop(): cancels playback.
stopSpeaking(s) == [s EXCEPT !.isSpeaking = FALSE, !.speakCallback = None]

(* -------------------------- useSpeechRecognition ----------------------- *)
cleanup(s0) ==
    LET s == ClearRef([s0 EXCEPT !.recognitionRef = AbortInstance(@)]) IN
    [s EXCEPT !.restartTimer = FALSE,
              !.silenceTimer = NoTimer,
              !.isListening = FALSE,
              !.isProcessingRef = FALSE]

processVoiceResult(s, text) ==
    LET trimmedText == Trim(text) IN
    IF s.isProcessingRef \/ trimmedText = Empty \/ trimmedText = s.lastProcessedTextRef
    THEN s
    ELSE IF Len(trimmedText) < 2
    THEN s
    ELSE [s EXCEPT !.isProcessingRef = TRUE,
                   !.lastProcessedTextRef = trimmedText,
                   !.recognitionRef = StopInstance(@),
                   !.dispatch = IF s.onSpeechEndRef # None THEN trimmedText ELSE @]

\* startListening up to its await: the call joins those awaiting the permission check.
\* A listening session begins with the call, and again when the recognizer is
\* created; stopListening ends it.
startListening(s, mode) ==
    [s EXCEPT !.pendingStarts = [@ EXCEPT ![mode] = @ + 1], !.callbackCalls = 0]

\* startListeningDenied going on to create the recognizer all the same.
startListeningIgnoresDenial(s, mode) ==
    LET c == cleanup([s EXCEPT !.pendingStarts = [@ EXCEPT ![mode] = @ - 1]])
    IN [c EXCEPT !.isVoiceModeRef = (mode = "voice"),
                 !.onSpeechEndRef = IF mode = "voice" THEN "voice" ELSE None,
                 !.recognitionRef = "starting"]

\* startListening after the await, permission refused: alert and return.
startListeningDenied(s, mode) ==
    [s EXCEPT !.pendingStarts = [@ EXCEPT ![mode] = @ - 1]]

\* startListeningGranted without the reset of finalTranscriptRef.
startListeningKeepsTranscript(s, mode) ==
    LET c == cleanup([s EXCEPT !.pendingStarts = [@ EXCEPT ![mode] = @ - 1]])
    IN [c EXCEPT !.isVoiceModeRef = (mode = "voice"),
                 !.onSpeechEndRef = IF mode = "voice" THEN "voice" ELSE None,
                 !.isProcessingRef = FALSE,
                 !.lastProcessedTextRef = Empty,
                 !.callbackCalls = 0,
                 !.recognitionRef = "starting"]

\* startListening after the await, permission granted: cleanup, mode flags, a new
\* recognizer object with its handlers, recognition.start().
startListeningGranted(s, mode) ==
    LET c == cleanup([s EXCEPT !.pendingStarts = [@ EXCEPT ![mode] = @ - 1]])
    IN [c EXCEPT !.isVoiceModeRef = (mode = "voice"),
                 !.onSpeechEndRef = IF mode = "voice" THEN "voice" ELSE None,
                 !.finalTranscriptRef = Empty,
                 !.isProcessingRef = FALSE,
                 !.lastProcessedTextRef = Empty,
                 !.callbackCalls = 0,
                 !.recognitionRef = "starting"]

\* stopListening without its cleanup() call.
stopListeningNoCleanup(s) ==
    [s EXCEPT !.isVoiceModeRef = FALSE,
              !.onSpeechEndRef = None,
              !.isProcessingRef = FALSE,
              !.lastProcessedTextRef = Empty,
              !.callbackCalls = 0,
              !.stoppedSinceNoSpeech = s.noSpeechTimer]

stopListening(s) ==
    cleanup([s EXCEPT !.isVoiceModeRef = FALSE,
                      !.onSpeechEndRef = None,
                      !.isProcessingRef = FALSE,
                      !.lastProcessedTextRef = Empty,
                      !.callbackCalls = 0,
                      !.stoppedSinceNoSpeech = s.noSpeechTimer])

resetTranscript(s) ==
    [s EXCEPT !.transcript = Empty,
              !.finalTranscriptRef = Empty,
              !.lastProcessedTextRef = Empty,
              !.isProcessingRef = FALSE]

restartListening(s) ==
    [s EXCEPT !.silenceTimer = NoTimer,
              !.isProcessingRef = FALSE,
              !.lastProcessedTextRef = Empty,
              !.callbackCalls = 0,
              !.restartTimer = TRUE]

\* timeoutRef's 1500 ms callback.
restartTimerCallback(s) ==
    LET t == [s EXCEPT !.restartTimer = FALSE] IN
    IF t.isVoiceModeRef THEN startListening(t, "voice") ELSE t

\* recognition.onstart
onstart(s0, o) ==
    LET s == SetStatus(s0, o, IF s0.isMobile /\ s0.isVoiceModeRef
                              THEN "waiting" ELSE "listening") IN
    [s EXCEPT !.isListening = TRUE,
              !.transcript = Empty]

\* isListening as the auto-stop callback reads it: the value startListening's
\* closure holds, that of the render that created startListening (its
\* dependencies are isSupported, cleanup and processVoiceResult), when no
\* recognizer had been started yet.
ListeningInClosure == FALSE

\* The auto-stop timer's callback (10 s after the start event).
autoStopCallback(s, o) ==
    SetStatus(s, o, IF s.recognitionRef # Null /\ ListeningInClosure
                    THEN "stopping" ELSE "listening")

\* clearTimeout(autoStopTimeout) by a handler of the recognizer.
ClearAutoStop(s, o) ==
    IF (IF o = "ref" THEN s.recognitionRef ELSE o) = "waiting"
    THEN SetStatus(s, o, "listening")
    ELSE s

\* LooksComplete without the minimum length.
LooksCompleteAtAnyLength(fullText) ==
    \/ fullText[Len(fullText)] \in { ".", "?", "!" }
    \/ Len(fullText) > 10

\* Whether the mobile heuristic takes an interim text for complete.
LooksComplete(fullText) ==
    /\ Len(fullText) > 3
    /\ \/ fullText[Len(fullText)] \in { ".", "?", "!" }
       \/ Len(fullText) > 10

\* recognition.onresult for an event carrying one final and one interim result
\* (Empty when the event has none of that kind).
onresult(s0, o, finalSeg, interimSeg) ==
    LET s == ClearAutoStop(s0, o)
        finalTranscript == Trim(finalSeg)
        interimTranscript == Trim(interimSeg)
        hasNewFinal == finalTranscript # Empty
        finalRef == s.finalTranscriptRef \o finalTranscript
        currentTranscript == finalRef \o interimTranscript
        s1 == [s EXCEPT !.finalTranscriptRef = finalRef,
                        !.transcript = IF currentTranscript # Empty
                                         THEN currentTranscript ELSE @]
        fullFinal == Trim(finalRef)
        s2 == IF hasNewFinal /\ s1.isVoiceModeRef /\ ~s1.isProcessingRef
                 /\ fullFinal # Empty /\ Len(fullFinal) > 1
              THEN [s1 EXCEPT !.silenceTimer = fullFinal]
              ELSE s1
        fullInterim == Trim(finalRef \o interimTranscript)
    IN IF s2.isMobile /\ s2.isVoiceModeRef /\ ~s2.isProcessingRef
          /\ interimTranscript # Empty /\ LooksComplete(fullInterim)
       THEN [s2 EXCEPT !.silenceTimer = fullInterim]
       ELSE s2

\* silenceTimerCallback with the timer left pending.
silenceTimerCallbackKeepsTimer(s) ==
    IF ~s.isProcessingRef THEN processVoiceResult(s, s.silenceTimer) ELSE s

\* The silence timer's callback (300/500/800 ms after the result).
silenceTimerCallback(s) ==
    LET t == [s EXCEPT !.silenceTimer = NoTimer] IN
    IF ~t.isProcessingRef THEN processVoiceResult(t, s.silenceTimer) ELSE t

\* recognition.onend
onend(s0, o) ==
    LET s == ClearRef(Remove(s0, o)) IN
    [s EXCEPT !.isListening = FALSE,
              !.transcript = IF ~s.isVoiceModeRef /\ s.finalTranscriptRef # Empty
                               THEN s.finalTranscriptRef ELSE @,
              !.resetTimers = @ + 1]

\* recognition.onerror
onerror(s0, o, error) ==
    LET s == ClearRef(SetStatus(s0, o, "errored"))
        restarts == error = "no-speech" /\ s.isMobile
                    /\ s.isVoiceModeRef /\ ~s.isProcessingRef
    IN
    [s EXCEPT !.noSpeechTimer = IF restarts THEN TRUE ELSE @,
              !.stoppedSinceNoSpeech = IF restarts THEN FALSE ELSE @,
              !.isListening = FALSE,
              !.resetTimers = @ + 1]

\* The no-speech branch's 1000 ms callback.
noSpeechTimerCallback(s) ==
    LET t == [s EXCEPT !.noSpeechTimer = FALSE, !.stoppedSinceNoSpeech = FALSE] IN
    IF t.isVoiceModeRef /\ t.onSpeechEndRef # None THEN startListening(t, "voice") ELSE t

\* onend's and onerror's 1000 ms callback.
resetTimerCallback(s) ==
    [s EXCEPT !.resetTimers = @ - 1, !.isProcessingRef = FALSE]


(* --------------------------------- App ---------------------------------- *)
UserMessage(text, att) == [type |-> "user", message |-> text, attachment |-> att]
BotMessage(text) == [type |-> "bot", message |-> text, attachment |-> FALSE]

AddRequest(s, kind) == [s EXCEPT !.requests = [@ EXCEPT ![kind] = @ + 1]]

\* handleVoiceConversation up to its await of sendChatMessage.
handleVoiceConversation(s, spokenText) ==
    IF s.isProcessingVoiceRef
    THEN s
    ELSE IF Trim(spokenText) = Empty \/ Len(Trim(spokenText)) < 2
    THEN IF s.voiceModeRef THEN restartListening(s) ELSE s
    ELSE LET s1 == resetTranscript([s EXCEPT !.isProcessingVoiceRef = TRUE])
             s2 == [s1 EXCEPT !.currentUserSpeech = Empty,
                              !.messages = Append(@, UserMessage(spokenText, FALSE)),
                              !.isLoading = TRUE]
         IN AddRequest(stopSpeaking(s2), "voice")

\* speakDone with the delay of the empty-response path.
speakDoneAfterLongerDelay(s) ==
    LET s1 == [s EXCEPT !.currentBotSpeech = Empty, !.isProcessingVoiceRef = FALSE] IN
    IF s1.voiceModeRef THEN [s1 EXCEPT !.appTimers[EmptyRestartDelay] = @ + 1] ELSE s1

\* The callback handleVoiceConversation hands to speak(): playback has completed.
speakDone(s) ==
    LET s1 == [s EXCEPT !.currentBotSpeech = Empty, !.isProcessingVoiceRef = FALSE] IN
    IF s1.voiceModeRef THEN [s1 EXCEPT !.appTimers[SpeakRestartDelay] = @ + 1] ELSE s1

\* voiceResponse speaking whatever it got, the empty text too.
voiceResponseSpeaksEmpty(s, textResponse) ==
    LET s1 == [s EXCEPT !.messages = Append(@, BotMessage(textResponse))]
        s2 == IF s1.voiceModeRef
              THEN speak([s1 EXCEPT !.currentBotSpeech = textResponse], "voice")
              ELSE [s1 EXCEPT !.isProcessingVoiceRef = FALSE]
    IN [s2 EXCEPT !.isLoading = FALSE]

\* handleVoiceConversation after sendChatMessage resolved with textResponse.
voiceResponse(s, textResponse) ==
    LET s1 == [s EXCEPT !.messages = Append(@, BotMessage(textResponse))]
        s2 == IF textResponse # Empty /\ s1.voiceModeRef
              THEN speak([s1 EXCEPT !.currentBotSpeech = textResponse], "voice")
              ELSE IF s1.voiceModeRef
              THEN [s1 EXCEPT !.isProcessingVoiceRef = FALSE,
                              !.appTimers[EmptyRestartDelay] = @ + 1]
              ELSE [s1 EXCEPT !.isProcessingVoiceRef = FALSE]
    IN [s2 EXCEPT !.isLoading = FALSE]

\* The catch blocks' errorMessage.
errorMessage(error) == IF error = "ChatApiError" THEN ApiErrorText ELSE ErrorText

\* voiceFailure with the latch left set.
voiceFailureKeepsLatch(s, error) ==
    LET s1 == [s EXCEPT !.messages = Append(@, BotMessage(errorMessage(error)))]
        s2 == IF s1.voiceModeRef
              THEN [s1 EXCEPT !.appTimers[FailureRestartDelay] = @ + 1] ELSE s1
    IN [s2 EXCEPT !.isLoading = FALSE]

\* handleVoiceConversation after sendChatMessage rejected.
voiceFailure(s, error) ==
    LET s1 == [s EXCEPT !.messages = Append(@, BotMessage(errorMessage(error))),
                        !.isProcessingVoiceRef = FALSE]
        s2 == IF s1.voiceModeRef
              THEN [s1 EXCEPT !.appTimers[FailureRestartDelay] = @ + 1] ELSE s1
    IN [s2 EXCEPT !.isLoading = FALSE]

\* The 500/1000/2000 ms callbacks scheduled by handleVoiceConversation.
appTimerCallback(s, delay) ==
    LET t == [s EXCEPT !.appTimers[delay] = @ - 1] IN
    IF t.voiceModeRef /\ ~t.isProcessingVoiceRef THEN restartListening(t) ELSE t

\* handleResetChat without setMessages([]).
handleResetChatKeepsMessages(s) ==
    IF s.isLoading
    THEN s
    ELSE LET s1 == [s EXCEPT !.isVoiceMode = FALSE,
                             !.voiceModeRef = FALSE,
                             !.isProcessingVoiceRef = FALSE,
                             !.currentUserSpeech = Empty,
                             !.currentBotSpeech = Empty]
         IN AddRequest(resetTranscript(stopListening(stopSpeaking(s1))), "reset")

handleResetChat(s) ==
    IF s.isLoading
    THEN s
    ELSE LET s1 == [s EXCEPT !.messages = << >>,
                             !.isVoiceMode = FALSE,
                             !.voiceModeRef = FALSE,
                             !.isProcessingVoiceRef = FALSE,
                             !.currentUserSpeech = Empty,
                             !.currentBotSpeech = Empty]
         IN AddRequest(resetTranscript(stopListening(stopSpeaking(s1))), "reset")

\* handleSendMessage without its guard.
handleSendMessageUnguarded(s) ==
    LET s1 == [s EXCEPT !.messages = Append(@, UserMessage(s.input, s.attachment)),
                        !.input = Empty,
                        !.attachment = FALSE,
                        !.isLoading = TRUE]
    IN AddRequest(resetTranscript(stopSpeaking(s1)), "text")

\* handleSendMessage up to its await of sendChatMessage.
handleSendMessage(s) ==
    IF Trim(s.input) = Empty /\ ~s.attachment
    THEN s
    ELSE LET s1 == [s EXCEPT !.messages = Append(@, UserMessage(s.input, s.attachment)),
                             !.input = Empty,
                             !.attachment = FALSE,
                             !.isLoading = TRUE]
         IN AddRequest(resetTranscript(stopSpeaking(s1)), "text")

\* handleSendMessage's success path without the finally block's setIsLoading(false).
responseKeepsLoading(s, response) ==
    [s EXCEPT !.messages = Append(@, BotMessage(response)),
              !.autoSpeakTimer = IF s.autoSpeak /\ response # Empty THEN TRUE ELSE @]

\* handleSendMessage after sendChatMessage resolved with textResponse.
textResponse(s, response) ==
    [s EXCEPT !.messages = Append(@, BotMessage(response)),
              !.autoSpeakTimer = IF s.autoSpeak /\ response # Empty THEN TRUE ELSE @,
              !.isLoading = FALSE]

\* textFailure with setMessages given the new list instead of an updater.
textFailureReplacesMessages(s, error) ==
    [s EXCEPT !.messages = << BotMessage(errorMessage(error)) >>, !.isLoading = FALSE]

\* handleSendMessage after sendChatMessage rejected.
textFailure(s, error) ==
    [s EXCEPT !.messages = Append(@, BotMessage(errorMessage(error))), !.isLoading = FALSE]

\* The 500 ms auto-speak callback of handleSendMessage.
autoSpeakCallback(s) == speak([s EXCEPT !.autoSpeakTimer = FALSE], None)

handleVoiceToggle(s) ==
    IF s.isVoiceMode
    THEN LET s1 == [s EXCEPT !.isVoiceMode = FALSE,
                             !.voiceModeRef = FALSE,
                             !.isProcessingVoiceRef = FALSE,
                             !.currentUserSpeech = Empty,
                             !.currentBotSpeech = Empty]
         IN stopSpeaking(stopListening(s1))
    ELSE LET s1 == [s EXCEPT !.isVoiceMode = TRUE,
                             !.voiceModeRef = TRUE,
                             !.isProcessingVoiceRef = FALSE,
                             !.currentUserSpeech = Empty,
                             !.currentBotSpeech = Empty]
         IN startListening(resetTranscript(s1), "voice")

handleSpeakMessage(s) == IF s.isSpeaking THEN stopSpeaking(s) ELSE speak(s, None)

handleManualVoiceInput(s) ==
    IF s.isListening THEN stopListening(s) ELSE startListening(resetTranscript(s), "manual")

\* App's effects, run after every render:
\*   voiceModeRef follows isVoiceMode; currentUserSpeech follows transcript in voice
\*   mode and is cleared outside it; outside voice mode a transcript left when
\*   listening has stopped is appended to the input and reset.
Effects(s) ==
    LET s1 == [s EXCEPT !.voiceModeRef = s.isVoiceMode,
                        !.currentUserSpeech =
                            IF s.isVoiceMode /\ s.transcript # Empty THEN s.transcript
                            ELSE IF ~s.isVoiceMode THEN Empty ELSE @]
    IN IF s1.transcript # Empty /\ ~s1.isVoiceMode /\ ~s1.isListening
       THEN resetTranscript([s1 EXCEPT !.input = @ \o s1.transcript])
       ELSE s1

getCurrentVoiceState(s) ==
    IF s.isLoading \/ s.isProcessingVoiceRef THEN "loading"
    ELSE IF s.isSpeaking THEN "speaking"
    ELSE IF s.isListening THEN "listening"
    ELSE "idle"

(* ------------------------------- actions -------------------------------- *)
\* A handler's result becomes the next state once the effects of the render it
\* causes have run.
Commit(s) ==
    \E e \in { Effects(s) } :
    /\ messages' = e.messages
    /\ input' = e.input
    /\ isLoading' = e.isLoading
    /\ attachment' = e.attachment
    /\ autoSpeak' = e.autoSpeak
    /\ autoSpeakTimer' = e.autoSpeakTimer
    /\ isVoiceMode' = e.isVoiceMode
    /\ currentUserSpeech' = e.currentUserSpeech
    /\ currentBotSpeech' = e.currentBotSpeech
    /\ voiceModeRef' = e.voiceModeRef
    /\ isProcessingVoiceRef' = e.isProcessingVoiceRef
    /\ isListening' = e.isListening
    /\ transcript' = e.transcript
    /\ recognitionRef' = e.recognitionRef
    /\ onSpeechEndRef' = e.onSpeechEndRef
    /\ finalTranscriptRef' = e.finalTranscriptRef
    /\ isVoiceModeRef' = e.isVoiceModeRef
    /\ isProcessingRef' = e.isProcessingRef
    /\ lastProcessedTextRef' = e.lastProcessedTextRef
    /\ restartTimer' = e.restartTimer
    /\ silenceTimer' = e.silenceTimer
    /\ dispatch' = e.dispatch
    /\ resetTimers' = e.resetTimers
    /\ noSpeechTimer' = e.noSpeechTimer
    /\ pendingStarts' = e.pendingStarts
    /\ detached' = e.detached
    /\ callbackCalls' = e.callbackCalls
    /\ stoppedSinceNoSpeech' = e.stoppedSinceNoSpeech
    /\ isSpeaking' = e.isSpeaking
    /\ speakCallback' = e.speakCallback
    /\ appTimers' = e.appTimers
    /\ requests' = e.requests
    /\ isMobile' = e.isMobile
    /\ micGranted' = e.micGranted

\* The text view is rendered outside voice mode; its controls are disabled while
\* isLoading. The voice view has the close button only.
TextControls == ~isVoiceMode /\ ~isLoading

VoiceRequestCount == requests["voice"] + requests["voiceExited"]

AppTimerCount ==
    appTimers[SpeakRestartDelay] + appTimers[EmptyRestartDelay]
    + appTimers[FailureRestartDelay]

UserMessageCount == Cardinality({ i \in DOMAIN messages : messages[i].type = "user" })

\* Room for one more voice turn within the bounds.
CanSendVoice == UserMessageCount < MaxUserMessages /\ VoiceRequestCount < MaxVoiceRequests

\* abort() takes effect at once: the aborted recognizer's error and end events are
\* delivered before any timer, user event or response.
Settled == recognitionRef # "aborting" /\ detached["aborting"] = 0

\* Room for one more startListening call to await the permission check.
CanStart == pendingStarts["voice"] + pendingStarts["manual"] < MaxPendingStarts

\* The text input's onChange.
UserTypes(v) ==
    /\ Settled
    /\ TextControls
    /\ v # input
    /\ Commit([State EXCEPT !.input = v])

\* handleFileChange with an image file, through the FileReader's onload.
UserSelectsFile ==
    /\ Settled
    /\ TextControls
    /\ ~attachment
    /\ Commit([State EXCEPT !.attachment = TRUE])

\* The attachment preview's remove button.
UserRemovesAttachment ==
    /\ Settled
    /\ ~isVoiceMode
    /\ attachment
    /\ Commit([State EXCEPT !.attachment = FALSE])

UserTogglesAutoSpeak ==
    /\ Settled
    /\ ~isVoiceMode
    /\ Commit([State EXCEPT !.autoSpeak = ~@])

SendMessage ==
    /\ Settled
    /\ TextControls
    /\ UserMessageCount < MaxTextMessages
    /\ requests["text"] < MaxTextRequests
    /\ Commit(handleSendMessage(State))

TextResponse(response) ==
    /\ Settled
    /\ requests["text"] > 0
    /\ ~(autoSpeakTimer /\ autoSpeak /\ response # Empty)
    /\ Commit(textResponse([State EXCEPT !.requests["text"] = @ - 1], response))

TextFailure(error) ==
    /\ Settled
    /\ requests["text"] > 0
    /\ Commit(textFailure([State EXCEPT !.requests["text"] = @ - 1], error))

AutoSpeakTimerFires ==
    /\ Settled
    /\ autoSpeakTimer
    /\ Commit(autoSpeakCallback(State))

ResetChat ==
    /\ Settled
    /\ TextControls
    /\ requests["reset"] < MaxResetRequests
    /\ Commit(handleResetChat(State))

\* The reset request returns; its result is not used.
ResetResponse ==
    /\ Settled
    /\ requests["reset"] > 0
    /\ Commit([State EXCEPT !.requests["reset"] = @ - 1])

VoiceToggleOn ==
    /\ Settled
    /\ TextControls
    /\ CanStart
    /\ Commit(handleVoiceToggle(State))

\* The requests outstanding at the exit are marked as such.
VoiceToggleOff ==
    /\ Settled
    /\ isVoiceMode
    /\ Commit([handleVoiceToggle(State) EXCEPT
                  !.requests = [@ EXCEPT !["voiceExited"] = @ + requests["voice"],
                                         !["voice"] = 0]])

ManualVoiceInput ==
    /\ Settled
    /\ TextControls
    /\ isListening \/ CanStart
    /\ Commit(handleManualVoiceInput(State))

SpeakMessage ==
    /\ Settled
    /\ ~isVoiceMode
    /\ messages # << >>
    /\ Commit(handleSpeakMessage(State))

\* checkMicrophonePermission resolves for one of the awaiting calls.
PermissionResolves(mode) ==
    /\ Settled
    /\ pendingStarts[mode] > 0
    /\ IF micGranted
       THEN /\ ObjectCount(State) < MaxInstances
            /\ Commit(startListeningGranted(State, mode))
       ELSE Commit(startListeningDenied(State, mode))

\* The user grants or revokes the microphone permission in the browser.
PermissionChanges ==
    /\ Settled
    /\ Commit([State EXCEPT !.micGranted = ~@])

RecognizerStarts(o) ==
    /\ Exists(o)
    /\ StatusOf(o) = "starting"
    /\ Commit(onstart(State, o))

\* The recognizer may deliver a result; one that was stopped still may.
Delivers(o) ==
    /\ Exists(o)
    /\ StatusOf(o) \in { "waiting", "listening", "stopping" }

\* One result event, final or interim, of the segment seg.
Result(o, isFinal, seg) ==
    Commit(IF isFinal THEN onresult(State, o, seg, Empty)
                      ELSE onresult(State, o, Empty, seg))

\* A result event of a short utterance.
RecognizerResult(o, isFinal, seg) ==
    /\ Delivers(o)
    /\ Len(finalTranscriptRef) + Len(Trim(seg)) <= MaxTranscriptLen
    /\ Len(input) + Len(finalTranscriptRef) + Len(Trim(seg)) <= MaxInputLen
    /\ isVoiceModeRef => CanSendVoice
    /\ Result(o, isFinal, seg)

\* A result event of a longer utterance.
SpeechResult(o, isFinal, seg) ==
    /\ Delivers(o)
    /\ Len(finalTranscriptRef) + Len(Trim(seg)) <= MaxSpeechLen
    /\ isVoiceModeRef => CanSendVoice
    /\ Result(o, isFinal, seg)

RecognizerEnds(o) ==
    /\ Exists(o)
    /\ StatusOf(o) \in { "waiting", "listening", "stopping" }
    /\ resetTimers < MaxResetTimers
    /\ Commit(onend(State, o))

\* An error event and the end event that follows it at once. 'aborted' follows
\* abort(); 'no-speech' comes from the current recognizer while it has heard nothing;
\* other errors (network, audio) come while listening. The two handlers' reset
\* timers are set together, run the same callback together, and count as one.
RecognizerError(o, error) ==
    /\ Exists(o)
    /\ \/ StatusOf(o) = "aborting" /\ error = "aborted"
       \/ /\ o = "ref"
          /\ StatusOf(o) \in { "waiting", "listening" }
          /\ transcript = Empty /\ finalTranscriptRef = Empty
          /\ error = "no-speech"
       \/ StatusOf(o) \in { "waiting", "listening" } /\ error = "other"
    /\ resetTimers < MaxResetTimers
    /\ Commit([onend(onerror(State, o, error), "errored") EXCEPT !.resetTimers = @ - 1])

\* The recognizer's auto-stop timer fires: no event of it came for 10 s.
AutoStopTimerFires(o) ==
    /\ Settled
    /\ Exists(o)
    /\ StatusOf(o) = "waiting"
    /\ Commit(autoStopCallback(State, o))

\* The silence timer (300 ms or more) is due after a pending 100 ms dispatch.
SilenceTimerFires ==
    /\ Settled
    /\ silenceTimer # NoTimer
    /\ dispatch = NoTimer
    /\ isProcessingRef \/ Len(Trim(silenceTimer)) < 2 \/ CanSendVoice
    /\ Commit(silenceTimerCallback(State))

\* processVoiceResult's 100 ms timer calls the voice callback.
DispatchFires ==
    /\ Settled
    /\ dispatch # NoTimer
    /\ \/ isProcessingVoiceRef
       \/ Len(Trim(dispatch)) < 2
       \/ CanSendVoice
    /\ Commit(handleVoiceConversation(
                 [State EXCEPT !.dispatch = NoTimer,
                               !.callbackCalls = IF @ = 0 THEN 1 ELSE 2], dispatch))

RestartTimerFires ==
    /\ Settled
    /\ restartTimer
    /\ isVoiceModeRef => CanStart
    /\ Commit(restartTimerCallback(State))

ResetTimerFires ==
    /\ resetTimers > 0
    /\ Commit(resetTimerCallback(State))

NoSpeechTimerFires ==
    /\ Settled
    /\ noSpeechTimer
    /\ (isVoiceModeRef /\ onSpeechEndRef # None) => CanStart
    /\ Commit(noSpeechTimerCallback(State))

AppTimerFires(delay) ==
    /\ Settled
    /\ appTimers[delay] > 0
    /\ Commit(appTimerCallback(State, delay))

VoiceResponse(kind, response) ==
    /\ Settled
    /\ kind \in { "voice", "voiceExited" }
    /\ requests[kind] > 0
    /\ AppTimerCount < MaxAppTimers
    /\ Commit(voiceResponse([State EXCEPT !.requests[kind] = @ - 1], response))

VoiceFailure(kind, error) ==
    /\ Settled
    /\ kind \in { "voice", "voiceExited" }
    /\ requests[kind] > 0
    /\ AppTimerCount < MaxAppTimers
    /\ Commit(voiceFailure([State EXCEPT !.requests[kind] = @ - 1], error))

\* The synthesizer finishes the utterance and calls its onDone.
SpeechEnds ==
    /\ Settled
    /\ isSpeaking
    /\ speakCallback = "voice" => AppTimerCount < MaxAppTimers
    /\ Commit(LET s == [State EXCEPT !.isSpeaking = FALSE, !.speakCallback = None]
              IN IF speakCallback = "voice" THEN speakDone(s) ELSE s)

Init ==
    /\ messages = << >>
    /\ input = Empty
    /\ isLoading = FALSE
    /\ attachment = FALSE
    /\ autoSpeak = TRUE
    /\ autoSpeakTimer = FALSE
    /\ isVoiceMode = FALSE
    /\ currentUserSpeech = Empty
    /\ currentBotSpeech = Empty
    /\ voiceModeRef = FALSE
    /\ isProcessingVoiceRef = FALSE
    /\ isListening = FALSE
    /\ transcript = Empty
    /\ recognitionRef = Null
    /\ onSpeechEndRef = None
    /\ finalTranscriptRef = Empty
    /\ isVoiceModeRef = FALSE
    /\ isProcessingRef = FALSE
    /\ lastProcessedTextRef = Empty
    /\ restartTimer = FALSE
    /\ silenceTimer = NoTimer
    /\ dispatch = NoTimer
    /\ resetTimers = 0
    /\ noSpeechTimer = FALSE
    /\ pendingStarts = [m \in StartModes |-> 0]
    /\ detached = [st \in Status |-> 0]
    /\ callbackCalls = 0
    /\ stoppedSinceNoSpeech = FALSE
    /\ isSpeaking = FALSE
    /\ speakCallback = None
    /\ appTimers = [d \in Delays |-> 0]
    /\ requests = [k \in RequestKinds |-> 0]
    /\ isMobile \in BOOLEAN
    /\ micGranted \in BOOLEAN

Next ==
    \/ \E v \in InputTexts : UserTypes(v)
    \/ UserSelectsFile
    \/ UserRemovesAttachment
    \/ UserTogglesAutoSpeak
    \/ SendMessage
    \/ \E r \in ResponseTexts : TextResponse(r)
    \/ \E e \in Failures : TextFailure(e)
    \/ AutoSpeakTimerFires
    \/ ResetChat
    \/ ResetResponse
    \/ VoiceToggleOn
    \/ VoiceToggleOff
    \/ ManualVoiceInput
    \/ SpeakMessage
    \/ \E m \in StartModes : PermissionResolves(m)
    \/ PermissionChanges
    \/ \E o \in Objects : RecognizerStarts(o)
    \/ \E o \in Objects : AutoStopTimerFires(o)
    \/ \E o \in Objects, f \in BOOLEAN, seg \in Segments : RecognizerResult(o, f, seg)
    \/ \E o \in Objects : RecognizerEnds(o)
    \/ \E o \in Objects, e \in { "aborted", "no-speech", "other" } : RecognizerError(o, e)
    \/ SilenceTimerFires
    \/ DispatchFires
    \/ RestartTimerFires
    \/ ResetTimerFires
    \/ NoSpeechTimerFires
    \/ \E d \in Delays : AppTimerFires(d)
    \/ \E k \in { "voice", "voiceExited" }, r \in ResponseTexts : VoiceResponse(k, r)
    \/ \E k \in { "voice", "voiceExited" }, e \in Failures : VoiceFailure(k, e)
    \/ SpeechEnds

Spec == Init /\ [][Next]_vars

(* ------------------- the voice conversation on its own ------------------ *)
\* The voice toggle and everything the turn-taking loop reacts to; the text
\* view's other controls are left untouched, and so is the auto-stop timer,
\* whose callback changes nothing.
NextVoice ==
    \/ VoiceToggleOn
    \/ VoiceToggleOff
    \/ \E m \in StartModes : PermissionResolves(m)
    \/ \E o \in Objects : RecognizerStarts(o)
    \/ \E o \in Objects, f \in BOOLEAN, seg \in Segments : RecognizerResult(o, f, seg)
    \/ \E o \in Objects : RecognizerEnds(o)
    \/ \E o \in Objects, e \in { "aborted", "no-speech", "other" } : RecognizerError(o, e)
    \/ SilenceTimerFires
    \/ DispatchFires
    \/ RestartTimerFires
    \/ ResetTimerFires
    \/ NoSpeechTimerFires
    \/ \E d \in Delays : AppTimerFires(d)
    \/ \E k \in { "voice", "voiceExited" }, r \in ResponseTexts : VoiceResponse(k, r)
    \/ \E k \in { "voice", "voiceExited" }, e \in Failures : VoiceFailure(k, e)
    \/ SpeechEnds

SpecVoice == Init /\ [][NextVoice]_vars

\* Timers fire, the permission check resolves, a recognizer delivers its start,
\* end and abort events, requests return and playback finishes. Speech, errors
\* and the user's clicks are under no obligation.
Scheduling ==
    /\ WF_vars(\E m \in StartModes : PermissionResolves(m))
    /\ WF_vars(\E o \in Objects : RecognizerStarts(o))
    /\ WF_vars(\E o \in Objects : AutoStopTimerFires(o))
    /\ WF_vars(\E o \in Objects : RecognizerEnds(o))
    /\ WF_vars(\E o \in Objects : RecognizerError(o, "aborted"))
    /\ WF_vars(SilenceTimerFires)
    /\ WF_vars(DispatchFires)
    /\ WF_vars(RestartTimerFires)
    /\ WF_vars(ResetTimerFires)
    /\ WF_vars(NoSpeechTimerFires)
    /\ WF_vars(\E d \in Delays : AppTimerFires(d))
    /\ WF_vars(\E k \in { "voice", "voiceExited" }, r \in ResponseTexts : VoiceResponse(k, r))
    /\ WF_vars(SpeechEnds)

\* The loop while the user stays in voice mode: as NextVoice, without the exit.
NextLoop ==
    \/ VoiceToggleOn
    \/ \E m \in StartModes : PermissionResolves(m)
    \/ \E o \in Objects : RecognizerStarts(o)
    \/ \E o \in Objects : AutoStopTimerFires(o)
    \/ \E o \in Objects, f \in BOOLEAN, seg \in Segments : RecognizerResult(o, f, seg)
    \/ \E o \in Objects : RecognizerEnds(o)
    \/ \E o \in Objects, e \in { "aborted", "no-speech", "other" } : RecognizerError(o, e)
    \/ SilenceTimerFires
    \/ DispatchFires
    \/ RestartTimerFires
    \/ ResetTimerFires
    \/ NoSpeechTimerFires
    \/ \E d \in Delays : AppTimerFires(d)
    \/ \E r \in ResponseTexts : VoiceResponse("voice", r)
    \/ \E e \in Failures : VoiceFailure("voice", e)
    \/ SpeechEnds

FairLoop == Init /\ [][NextLoop]_vars /\ Scheduling

(* ------------------------ the text chat on its own ---------------------- *)
NextChat ==
    \/ \E v \in InputTexts : UserTypes(v)
    \/ UserSelectsFile
    \/ UserRemovesAttachment
    \/ UserTogglesAutoSpeak
    \/ SendMessage
    \/ \E r \in ResponseTexts : TextResponse(r)
    \/ \E e \in Failures : TextFailure(e)
    \/ AutoSpeakTimerFires
    \/ ResetChat
    \/ ResetResponse
    \/ SpeakMessage
    \/ SpeechEnds

SpecChat == Init /\ [][NextChat]_vars

(* ------------------ text chat, voice turns and reset -------------------- *)
\* No timer of the loop and no startListening call is pending.
Quiet ==
    /\ dispatch = NoTimer /\ silenceTimer = NoTimer
    /\ AppTimerCount = 0 /\ ~restartTimer /\ ~noSpeechTimer /\ resetTimers = 0
    /\ pendingStarts["voice"] = 0

\* A conversation by text and by voice with resets: attachments, text sends, the
\* voice loop with final results and without the auto-stop timer, and the exit
\* taken while the loop is Quiet (requests may be in flight then).
NextSession ==
    \/ UserSelectsFile
    \/ SendMessage
    \/ \E r \in ResponseTexts : TextResponse(r)
    \/ \E e \in Failures : TextFailure(e)
    \/ ResetChat
    \/ ResetResponse
    \/ VoiceToggleOn
    \/ Quiet /\ VoiceToggleOff
    \/ PermissionResolves("voice")
    \/ \E o \in Objects : RecognizerStarts(o)
    \/ \E o \in Objects, seg \in Segments : RecognizerResult(o, TRUE, seg)
    \/ \E o \in Objects : RecognizerEnds(o)
    \/ \E o \in Objects : RecognizerError(o, "aborted")
    \/ SilenceTimerFires
    \/ DispatchFires
    \/ RestartTimerFires
    \/ ResetTimerFires
    \/ \E d \in Delays : AppTimerFires(d)
    \/ \E k \in { "voice", "voiceExited" }, r \in ResponseTexts : VoiceResponse(k, r)
    \/ \E k \in { "voice", "voiceExited" }, e \in Failures : VoiceFailure(k, e)
    \/ SpeechEnds

SpecSession == Init /\ [][NextSession]_vars

(* --------------- the loop with a permission that may change ------------- *)
NextPermission ==
    \/ NextLoop
    \/ PermissionChanges

SpecPermission == Init /\ [][NextPermission]_vars

(* ------------------- hearing an utterance in voice mode ----------------- *)
\* Voice mode is entered and one recognizer hears longer utterances; the first
\* accepted transcript starts a turn whose request stays in flight.
NextHearing ==
    \/ VoiceToggleOn
    \/ PermissionResolves("voice")
    \/ \E o \in Objects : RecognizerStarts(o)
    \/ \E o \in Objects : AutoStopTimerFires(o)
    \/ \E o \in Objects, f \in BOOLEAN, seg \in SpeechSegments : SpeechResult(o, f, seg)
    \/ SilenceTimerFires
    \/ DispatchFires

SpecHearing == Init /\ [][NextHearing]_vars

(* ---------------- a text turn, then the voice conversation -------------- *)
\* A message sent from the text view (with an attachment, so that the input may
\* stay empty) and answered, followed by the voice loop.
NextTurns ==
    \/ UserSelectsFile
    \/ SendMessage
    \/ \E r \in ResponseTexts : TextResponse(r)
    \/ \E e \in Failures : TextFailure(e)
    \/ NextLoop

\* As Scheduling, and the text send's request returns.
FairTurns ==
    /\ Init /\ [][NextTurns]_vars
    /\ Scheduling
    /\ WF_vars(\E r \in ResponseTexts : TextResponse(r))

(* ------------------ voice turns of several sentences -------------------- *)
\* The voice loop hearing short sentences, final and interim, turn after turn.
NextRecall ==
    \/ VoiceToggleOn
    \/ PermissionResolves("voice")
    \/ \E o \in Objects : RecognizerStarts(o)
    \/ \E o \in Objects, f \in BOOLEAN, seg \in SentenceSegments : SpeechResult(o, f, seg)
    \/ \E o \in Objects : RecognizerEnds(o)
    \/ \E o \in Objects : RecognizerError(o, "aborted")
    \/ SilenceTimerFires
    \/ DispatchFires
    \/ RestartTimerFires
    \/ ResetTimerFires
    \/ \E d \in Delays : AppTimerFires(d)
    \/ \E r \in ResponseTexts : VoiceResponse("voice", r)
    \/ SpeechEnds

SpecRecall == Init /\ [][NextRecall]_vars

(* ------------- exit and reset while voice turns are under way ---------- *)
\* Voice turns with final results and empty responses, the exit from voice mode
\* at any time, and a reset whose own request stays in flight.
NextRace ==
    \/ VoiceToggleOn
    \/ VoiceToggleOff
    \/ PermissionResolves("voice")
    \/ \E o \in Objects : RecognizerStarts(o)
    \/ \E o \in Objects : RecognizerResult(o, TRUE, <<" ", "a">>)
    \/ \E o \in Objects : RecognizerEnds(o)
    \/ \E o \in Objects : RecognizerError(o, "aborted")
    \/ SilenceTimerFires
    \/ DispatchFires
    \/ RestartTimerFires
    \/ ResetTimerFires
    \/ \E d \in Delays : AppTimerFires(d)
    \/ \E k \in { "voice", "voiceExited" } : VoiceResponse(k, Empty)
    \/ ResetChat

SpecRace == Init /\ [][NextRace]_vars

(* ---------------------------- manual dictation -------------------------- *)
\* The microphone button of the text view and the recognizers it starts.
NextDictation ==
    \/ ManualVoiceInput
    \/ PermissionResolves("manual")
    \/ \E o \in Objects : RecognizerStarts(o)
    \/ \E o \in Objects, f \in BOOLEAN, seg \in Segments : RecognizerResult(o, f, seg)
    \/ \E o \in Objects : RecognizerEnds(o)
    \/ \E o \in Objects, e \in { "aborted", "no-speech", "other" } : RecognizerError(o, e)
    \/ ResetTimerFires

SpecDictation == Init /\ [][NextDictation]_vars

(* -------------------------------- claims -------------------------------- *)
\* C1: at most one chat request started by handleVoiceConversation is outstanding
\* in every reachable state.
C1_OneOutstandingVoiceRequest == VoiceRequestCount <= 1

\* C2: a request of handleVoiceConversation is started only while voice mode is
\* on: none after the exit, whatever was pending then.
C2_NoVoiceRequestOutsideVoiceMode ==
    [][requests'["voice"] > requests["voice"] => isVoiceMode]_vars

\* C3: a step that turns voice mode off leaves isListening false, playback
\* stopped, the latch isProcessingVoiceRef false, currentUserSpeech and
\* currentBotSpeech empty and the hook's transcript empty.
C3_ExitClearsLoopState ==
    [][(isVoiceMode /\ ~isVoiceMode') =>
          /\ ~isListening'
          /\ ~isSpeaking'
          /\ ~isProcessingVoiceRef'
          /\ currentUserSpeech' = Empty
          /\ currentBotSpeech' = Empty
          /\ transcript' = Empty]_vars

\* Voice mode was left while a request was in flight, and the loop state is clear.
C3_ExitedWhileSubmitting ==
    /\ ~isVoiceMode
    /\ requests["voiceExited"] > 0
    /\ ~isListening /\ ~isSpeaking /\ ~isProcessingVoiceRef
    /\ transcript = Empty

\* Something that will start a recognizer, or one that is alive.
ListeningOrRestartDue ==
    \/ ObjectCount(State) > 0
    \/ PendingStartCount(State) > 0
    \/ restartTimer
    \/ noSpeechTimer
    \/ AppTimerCount > 0

\* C4: once a transcript of trimmed length below 2 has been recognized in voice
\* mode and no turn is under way, listening goes on or its restart is due.
C4_ShortTranscriptRestartsListening ==
    ( /\ isVoiceMode /\ isVoiceModeRef /\ micGranted
      /\ Len(Trim(finalTranscriptRef)) = 1
      /\ ~isProcessingVoiceRef /\ ~isSpeaking
      /\ VoiceRequestCount = 0
      /\ dispatch = NoTimer /\ silenceTimer = NoTimer )
    => ListeningOrRestartDue

\* C5: while the playback of a voice turn's response is running in voice mode,
\* no recognizer is started.
C5_NoRecognizerStartDuringPlayback ==
    [][(isVoiceMode /\ isSpeaking /\ speakCallback = "voice") =>
          ~(recognitionRef' = "starting" /\ pendingStarts' # pendingStarts)]_vars

\* The hook reports listening and a started recognizer that was not stopped is alive.
Listening ==
    /\ isListening
    /\ \/ recognitionRef \in { "waiting", "listening" }
       \/ detached["waiting"] + detached["listening"] > 0

\* A failed call's bot message is the last message, in voice mode with the
\* microphone granted, and the restart the failure scheduled is pending.
FailureAwaitingRestart ==
    /\ isVoiceMode /\ micGranted
    /\ AppTimerCount > 0
    /\ messages # << >>
    /\ messages[Len(messages)] \in { BotMessage(ErrorText), BotMessage(ApiErrorText) }

\* C6 as stated: a failed remote call of a voice turn appends exactly one bot
\* message, and that message carries the fallback error text.
C6_FailureAppendsFallbackText ==
    [][(\E k \in { "voice", "voiceExited" }, e \in Failures : VoiceFailure(k, e)) =>
          messages' = Append(messages, BotMessage(ErrorText))]_vars

\* C6 amended: a failed remote call of a voice turn appends exactly one bot
\* message, carrying the ChatApiError's own message or else the fallback text,
\* and releases the latch; while voice mode stays on and the microphone is
\* granted, the recognizer is listening again at some later time.
C6_FailureRecovers ==
    /\ [][\A e \in Failures :
             (\E k \in { "voice", "voiceExited" } : VoiceFailure(k, e)) =>
                /\ messages' = Append(messages, BotMessage(errorMessage(e)))
                /\ ~isProcessingVoiceRef']_vars
    /\ FailureAwaitingRestart ~> (Listening \/ ~isVoiceMode)

\* Listening again in voice mode after a call failed with a ChatApiError.
C6_ListeningAfterFailure ==
    /\ isVoiceMode /\ Listening
    /\ AppTimerCount = 0 /\ ~restartTimer
    /\ messages # << >>
    /\ messages[Len(messages)] = BotMessage(ApiErrorText)

\* C7: when a request that was in flight at the exit from voice mode returns, it
\* starts no playback, schedules no restart and leaves isProcessingVoiceRef false.
C7_ExitedRequestIsIgnored ==
    [][requests'["voiceExited"] < requests["voiceExited"] =>
          /\ ~(isSpeaking' /\ speakCallback' = "voice")
          /\ appTimers' = appTimers
          /\ ~isProcessingVoiceRef']_vars

\* The remote call of a voice turn returned an empty text in voice mode and the
\* restart it scheduled is pending.
EmptyAwaitingRestart ==
    /\ isVoiceMode /\ micGranted
    /\ AppTimerCount > 0
    /\ ~isSpeaking
    /\ messages # << >>
    /\ messages[Len(messages)] = BotMessage(Empty)

C9_SendNeedsTextOrAttachment ==
    [][SendMessage =>
          IF Trim(input) # Empty \/ attachment
          THEN /\ messages' = Append(messages, UserMessage(input, attachment))
               /\ requests' = [requests EXCEPT !["text"] = @ + 1]
          ELSE UNCHANGED << messages, requests, input, attachment >>]_vars

\* A message with an attachment and whitespace-only text was sent.
C9_AttachmentOnlySent ==
    /\ requests["text"] > 0
    /\ \E i \in DOMAIN messages :
          /\ messages[i].type = "user"
          /\ messages[i].attachment
          /\ messages[i].message = <<" ">>

\* C10: handleResetChat empties the message list and starts exactly one request
\* with the reset flag.
C10_ResetClearsAndNotifies ==
    [][ResetChat =>
          /\ messages' = << >>
          /\ requests' = [requests EXCEPT !["reset"] = @ + 1]]_vars

\* A reset is under way of a conversation that had a response (its auto-speak
\* timer is still pending).
C10_ResetUnderWay ==
    /\ requests["reset"] > 0
    /\ messages = << >>
    /\ requests["text"] = 0
    /\ autoSpeakTimer

\* C11: every step leaves the message list unchanged or adds one message at its
\* end, except handleResetChat, which empties it.
C11_MessagesAppendOnly ==
    [][IF ResetChat
       THEN messages' = << >>
       ELSE \/ messages' = messages
            \/ /\ Len(messages') = Len(messages) + 1
               /\ SubSeq(messages', 1, Len(messages)) = messages]_vars

\* A text turn with an attachment that failed, then a voice turn that failed.
C11_TextThenVoiceTurn ==
    /\ Len(messages) = 4
    /\ messages[1].type = "user" /\ messages[1].attachment
    /\ messages[2] = BotMessage(ErrorText)
    /\ messages[3] = UserMessage(<<"a", "a">>, FALSE)
    /\ messages[4] = BotMessage(ApiErrorText)

\* C12: every step that sends a user message, by text or by voice, puts the
\* pending attachment on that message and leaves no attachment pending.
C12_SentMessageTakesAttachment ==
    [][(/\ Len(messages') = Len(messages) + 1
        /\ messages'[Len(messages')].type = "user") =>
          /\ messages'[Len(messages')].attachment = attachment
          /\ ~attachment']_vars

\* Recognizers that were started and neither stopped nor aborted.
ActiveRecognizers ==
    (IF recognitionRef \in { "starting", "waiting", "listening" } THEN 1 ELSE 0)
    + detached["starting"] + detached["waiting"] + detached["listening"]

\* C13: at most one recognizer is active in every reachable state.
C13_OneActiveRecognizer == ActiveRecognizers <= 1

\* C14: the voice callback is called at most once in a listening session (from
\* a startListening or restartListening call to the next).
C14_OneCallbackPerSession == callbackCalls <= 1

C16_DeniedStartDoesNothing ==
    [][(~micGranted /\ \E m \in StartModes : PermissionResolves(m)) =>
          /\ recognitionRef' = recognitionRef
          /\ detached' = detached
          /\ isListening' = isListening
          /\ onSpeechEndRef' = onSpeechEndRef /\ isVoiceModeRef' = isVoiceModeRef
          /\ restartTimer' = restartTimer /\ silenceTimer' = silenceTimer
          /\ dispatch' = dispatch /\ noSpeechTimer' = noSpeechTimer
          /\ requests' = requests /\ messages' = messages
          /\ PendingStartCount(State)' = PendingStartCount(State) - 1]_vars

\* The restart after a turn was refused: voice mode is on with no recognizer, no
\* timer and no call left to bring one.
C16_RestartRefused ==
    /\ ~micGranted /\ isVoiceMode
    /\ messages # << >>
    /\ ~ListeningOrRestartDue
    /\ ~isListening /\ ~isSpeaking
    /\ VoiceRequestCount = 0

\* C17: when the auto-stop timer of a recognizer fires, that recognizer is
\* stopped.
C17_AutoStopStopsRecognizer ==
    [][\A o \in Objects :
          AutoStopTimerFires(o) =>
             \/ recognitionRef' = "stopping" /\ recognitionRef # "stopping"
             \/ detached'["stopping"] > detached["stopping"]]_vars

\* The end of a voice turn in voice mode sets the restart timer of its path:
\* playback completion, an empty response, a failed call.
TurnEndSetsPathDelay ==
    /\ (SpeechEnds /\ speakCallback = "voice" /\ voiceModeRef)
          => appTimers' = [appTimers EXCEPT ![SpeakRestartDelay] = @ + 1]
    /\ (voiceModeRef /\ \E k \in { "voice", "voiceExited" } : VoiceResponse(k, Empty))
          => appTimers' = [appTimers EXCEPT ![EmptyRestartDelay] = @ + 1]
    /\ (voiceModeRef /\ \E k \in { "voice", "voiceExited" }, e \in Failures :
                            VoiceFailure(k, e))
          => appTimers' = [appTimers EXCEPT ![FailureRestartDelay] = @ + 1]

\* The turn's restart timer fires in voice mode with the latch released.
TurnTimerRestarts ==
    /\ \E d \in Delays : AppTimerFires(d)
    /\ voiceModeRef /\ ~isProcessingVoiceRef

\* C18 as stated: the end of a voice turn sets a timer of 500 ms after playback,
\* 1000 ms after an empty response and 2000 ms after a failed call, and when
\* that timer fires the recognizer's start is requested (startListening is called).
C18_StartRequestedAfterPathDelay ==
    [][/\ TurnEndSetsPathDelay
       /\ TurnTimerRestarts
            => pendingStarts' = [pendingStarts EXCEPT !["voice"] = @ + 1]]_vars

\* C18 amended: the end of a voice turn sets a timer of 500 ms after playback,
\* 1000 ms after an empty response and 2000 ms after a failed call; when that
\* timer fires restartListening is called, which requests no start but sets its
\* own timer, and startListening is called only by the voice toggle, by that
\* timer or by the no-speech timer.
C18_RestartListeningAfterPathDelay ==
    [][/\ TurnEndSetsPathDelay
       /\ TurnTimerRestarts => (restartTimer' /\ pendingStarts' = pendingStarts)
       /\ pendingStarts'["voice"] > pendingStarts["voice"]
            => (VoiceToggleOn \/ RestartTimerFires \/ NoSpeechTimerFires)]_vars

\* After playback the turn's timer has fired and restartListening's timer is
\* pending: no start has been requested yet.
C18_RestartTimerAfterPlayback ==
    /\ isVoiceMode /\ restartTimer
    /\ AppTimerCount = 0 /\ PendingStartCount(State) = 0
    /\ ~isSpeaking /\ ~isProcessingVoiceRef
    /\ messages # << >>
    /\ messages[Len(messages)] = BotMessage(<<"r">>)

\* C19: an interim result sets the silence timer, for the final text accumulated
\* so far followed by the interim text, exactly when the device is mobile, the
\* session is a voice-mode one, no transcript is being processed, and that text
\* is longer than 3 characters and ends with '.', '?' or '!' or is longer than
\* 10; otherwise, and always on desktop, it leaves the timer as it was. It
\* never submits by itself.
C19_InterimSchedulesOnlyWhenComplete ==
    [][\A o \in Objects, seg \in SpeechSegments :
          SpeechResult(o, FALSE, seg) =>
             LET fullText == Trim(finalTranscriptRef \o Trim(seg)) IN
             /\ dispatch' = dispatch
             /\ IF /\ isMobile /\ isVoiceModeRef /\ ~isProcessingRef
                   /\ Len(fullText) > 3
                   /\ \/ fullText[Len(fullText)] \in { ".", "?", "!" }
                      \/ Len(fullText) > 10
                THEN silenceTimer' = fullText
                ELSE silenceTimer' = silenceTimer]_vars

\* On mobile a timer is pending for an interim text of 11 characters that does
\* not end a sentence.
C19_LongInterimScheduled ==
    /\ isMobile /\ isVoiceModeRef
    /\ silenceTimer # NoTimer
    /\ Len(silenceTimer) = 11
    /\ silenceTimer[11] = "a"
    /\ Len(finalTranscriptRef) < 11

\* C20: in manual dictation no request is started, no message is appended and
\* no submission is scheduled; the input changes only in the step in which
\* listening stops, by the transcript being appended to it, and the hook's
\* transcript is empty after that step.
C20_DictationGoesToInputOnce ==
    /\ [](/\ messages = << >>
          /\ requests = [k \in RequestKinds |-> 0]
          /\ silenceTimer = NoTimer /\ dispatch = NoTimer)
    /\ [][/\ (isListening /\ ~isListening')
               => /\ transcript' = Empty
                  /\ input' \in { input \o transcript, input \o finalTranscriptRef }
          /\ input' # input => (isListening /\ ~isListening')]_vars

\* C21: a 'no-speech' error on mobile in a voice-mode session with no transcript
\* being processed sets the 1000 ms timer; when the timer fires, startListening
\* is called with the voice callback if the session is still a voice-mode one
\* and was not stopped since the error, and otherwise no start is requested
\* and no recognizer is created.
C21_NoSpeechRestartsUnlessStopped ==
    [][/\ (\E o \in Objects : RecognizerError(o, "no-speech"))
            => (noSpeechTimer' = (noSpeechTimer \/ (isMobile /\ isVoiceModeRef
                                                      /\ ~isProcessingRef)))
       /\ NoSpeechTimerFires =>
            /\ recognitionRef' = recognitionRef /\ detached' = detached
            /\ IF isVoiceModeRef /\ onSpeechEndRef # None /\ ~stoppedSinceNoSpeech
               THEN /\ pendingStarts' = [pendingStarts EXCEPT !["voice"] = @ + 1]
                    /\ onSpeechEndRef' = onSpeechEndRef
               ELSE pendingStarts' = pendingStarts]_vars

BotMessageCount == Cardinality({ i \in DOMAIN messages : messages[i].type = "bot" })

\* Outstanding chat requests of text sends and voice turns.
ChatRequestCount == requests["text"] + VoiceRequestCount

\* Every user message has its bot message or its request outstanding; a request
\* that returns appends one bot message, whose text on success is the response.
OneBotMessagePerTurn ==
    /\ [](UserMessageCount = BotMessageCount + ChatRequestCount)
    /\ [][/\ ChatRequestCount' < ChatRequestCount
               => /\ Len(messages') = Len(messages) + 1
                  /\ SubSeq(messages', 1, Len(messages)) = messages
                  /\ messages'[Len(messages')].type = "bot"
                  /\ ~isLoading'
          /\ \A r \in ResponseTexts :
                (TextResponse(r) \/ VoiceResponse("voice", r))
                   => messages' = Append(messages, BotMessage(r))]_vars

\* The k-th user message gets a k-th bot message, and isLoading falls again.
TurnsAreAnswered ==
    /\ \A k \in 1..MaxUserMessages :
          (UserMessageCount >= k) ~> (BotMessageCount >= k)
    /\ isLoading ~> ~isLoading

SessionStartsEmpty ==
    /\ (micGranted /\ PermissionResolves("voice"))
          => /\ finalTranscriptRef' = Empty
             /\ silenceTimer' = NoTimer
    /\ (dispatch' # dispatch /\ dispatch' # NoTimer) => dispatch' = Trim(silenceTimer)
    /\ (DispatchFires /\ messages' # messages)
          => messages' = Append(messages, UserMessage(dispatch, FALSE))

C25_NoRecognizerAfterStop == ~isVoiceMode => ActiveRecognizers = 0

\* C26: every active recognizer is the one recognitionRef refers to, and
\* isListening is true while a started recognizer is active.
C26_ActiveRecognizerIsTheRef ==
    /\ detached["starting"] + detached["waiting"] + detached["listening"] = 0
    /\ recognitionRef \in { "waiting", "listening" } => isListening

\* The recognizer has just ended in voice mode (the reset timer its handler set
\* is pending) and no turn is under way: no transcript is being processed, no
\* request is outstanding, nothing is played back and no turn's timer is pending.
RecognizerEndedIdle ==
    /\ isVoiceMode /\ micGranted
    /\ ~isListening /\ ObjectCount(State) = 0
    /\ resetTimers > 0
    /\ ~isProcessingRef /\ ~isProcessingVoiceRef
    /\ dispatch = NoTimer /\ silenceTimer = NoTimer
    /\ VoiceRequestCount = 0 /\ ~isSpeaking
    /\ AppTimerCount = 0 /\ ~restartTimer

\* C27: in voice mode with the microphone granted, after the recognizer has
\* ended without a transcript having been accepted, a recognizer is listening
\* again at some later time.
C27_EndedRecognizerListensAgain == RecognizerEndedIdle ~> Listening

\* C28: a step that releases the latch isProcessingVoiceRef at the end of a turn
\* (playback completion, or the return of a request that was in flight at an
\* exit from voice mode) leaves no request of a later turn outstanding; the
\* exit from voice mode may release the latch at any time.
C28_LatchHeldForLaterTurn ==
    [][(/\ isProcessingVoiceRef /\ ~isProcessingVoiceRef'
        /\ ~VoiceToggleOff
        /\ requests'["voice"] = requests["voice"])
          => requests'["voice"] = 0]_vars

\* C29: isLoading is true in every state in which a chat request of a text send
\* or of a voice turn is outstanding.
C29_LoadingWhileRequestOutstanding == ChatRequestCount > 0 => isLoading

\* C30: the first message appended to an empty message list, after a reset as
\* at the start, is a user message: no response or error message of an earlier
\* request is appended to the list a reset has emptied.
C30_FirstMessageIsFromUser ==
    [][(messages = << >> /\ messages' # << >>) => messages'[1].type = "user"]_vars

\* C31: a step that enters or leaves voice mode leaves the message list, the
\* text input and the pending attachment as they were.
C31_VoiceToggleKeepsTextView ==
    [][(VoiceToggleOn \/ VoiceToggleOff) => UNCHANGED << messages, input, attachment >>]_vars

====
